---- MODULE Spec2Model ----
(***************************************************************************)
(* Model of app.py, the Streamlit hotel pricing dashboard.                 *)
(*                                                                         *)
(* Every user interaction re-runs the whole script for one browser         *)
(* session: the refresh handler (lines 93-102), then, when a snapshot is   *)
(* held in st.session_state, the per-row loop of the dashboard tab (lines  *)
(* 120-151) with its save and mark-as-pushed handlers, then the settings   *)
(* tab (lines 180-184).  Each action below is one such run.                *)
(*                                                                         *)
(* The backing worksheet is a grid of cells shared by all sessions; row 1  *)
(* holds the header texts.  Only the columns the script reads or writes    *)
(* are kept.                                                               *)
(***************************************************************************)
EXTENDS Integers, Sequences, FiniteSets, TLC

VARIABLES
    sheet,      \* the "Dynamic Rates" worksheet: Seq of rows, row = [Cols -> cell]
    client,     \* cached result of connect_to_sheets: "unset" | "ok" | "none"
    nbKey,      \* "NIGHTSBRIDGE_API_KEY" in st.secrets
    ss,         \* st.session_state of each session: [has_df, df, worksheet]
    act,        \* the interaction that caused the last script run
    calls,      \* worksheet.update_cell calls issued by the last script run
    msgs,       \* st.success / st.error / st.warning / st.info shown by the last run
    uncaught,   \* exception that escaped the last script run ("none" if none)
    inputs,     \* values offered by the number_input widgets the last run rendered
    ops         \* number of interactions so far (bounded specification only)

vars == <<sheet, client, nbKey, ss, act, calls, msgs, uncaught, inputs, ops>>

\* ---------------------------------------------------------------- bounds
MaxRows == 2        \* data rows of the worksheet
MaxOps == 4         \* interactions in the multi-session specification

Sessions == {1, 2}

\* ---------------------------------------------------------------- cells
Num(n) == [k |-> "num", n |-> n, s |-> ""]
Str(t) == [k |-> "str", n |-> 0, s |-> t]
NaN == [k |-> "nan", n |-> 0, s |-> ""]
Blank == Str("")

\* Column layout of the worksheet.  The script addresses the Manual_Override
\* cell as column 9 (line 140) and the Push_to_NB cell as column 10 (line
\* 148); the other fields are read by header text only, so their columns are
\* the sheet's choice (Room_Type first, Final_Recommended eighth here).
ColManualOverride == 9
ColPushToNB == 10

Header ==
    (1 :> Str("Room_Type")) @@ (8 :> Str("Final_Recommended")) @@
    (ColManualOverride :> Str("Manual_Override")) @@
    (ColPushToNB :> Str("Push_to_NB"))

Cols == DOMAIN Header

BlankRow == [c \in Cols |-> Blank]

\* The room types that may appear in a data row, with the upstream
\* Final_Recommended price of each.
RoomTypes == <<"Standard", "Deluxe", "Suite", "Family">>
FinalOf(i) == Num(100 + 50 * i)

\* ------------------------------------------------- spreadsheet client
\* worksheet.get_all_records(): row 1 gives the field names, every later row
\* is one record keyed by header text; an unpopulated cell reads as ''.
FieldNames(g) == {g[1][c].s : c \in Cols}
ColOf(g, f) == CHOOSE c \in Cols : g[1][c].s = f

get_all_records(g) ==
    [i \in 1..(Len(g) - 1) |-> [f \in FieldNames(g) |-> g[i + 1][ColOf(g, f)]]]

\* worksheet.update_cell(row, col, value): one cell of the grid is replaced;
\* rows between the last populated row and the target exist as blank rows.
Padded(g, row) ==
    [r \in 1..(IF row > Len(g) THEN row ELSE Len(g)) |->
        IF r <= Len(g) THEN g[r] ELSE BlankRow]

update_cell(g, row, col, value) ==
    [Padded(g, row) EXCEPT ![row][col] = value]

\* pd.DataFrame(data): the records in order, indexed 0..n-1 (position k of
\* the sequence is index k-1).
DataFrame(data) == data
Empty(df) == Len(df) = 0

\* ----------------------------------------------------------- render
pd_notna(x) == x.k # "nan"

\* line 128
current_override(row) ==
    IF pd_notna(row["Manual_Override"]) THEN row["Manual_Override"]
    ELSE row["Final_Recommended"]

\* float(x): a number converts, '' and any other text raise ValueError.
FloatOk(x) == x.k = "num"
Float(x) == x.n

\* st.number_input(min_value=0.0, ...): the widget holds no value below it.
min_value_below_zero == 0 - 1
min_value == 0

\* First position of df whose number_input cannot be built (line 132), 0 if
\* every row renders.
CrashRow(df) ==
    IF \E k \in 1..Len(df) : ~FloatOk(current_override(df[k]))
    THEN CHOOSE k \in 1..Len(df) :
            /\ ~FloatOk(current_override(df[k]))
            /\ \A j \in 1..(k - 1) : FloatOk(current_override(df[j]))
    ELSE 0

RenderedRows(df) == IF CrashRow(df) = 0 THEN Len(df) ELSE CrashRow(df) - 1

\* The buttons of index idx exist when the loop got past that row's
\* number_input.
ButtonShown(st, idx) == st.has_df /\ idx + 1 <= RenderedRows(st.df)

\* Values offered by the number_input widgets (value=float(current_override)).
Offered(st) ==
    IF st.has_df
    THEN [k \in 1..RenderedRows(st.df) |-> Float(current_override(st.df[k]))]
    ELSE <<>>

Escaped(st) ==
    IF st.has_df /\ CrashRow(st.df) # 0 THEN "ValueError" ELSE "none"

\* Messages of the part of the script after the row loop: the settings tab
\* (lines 180-184) or the hint of line 208.
TailMsgs(st, key) ==
    IF ~st.has_df THEN {"click_refresh"}
    ELSE IF CrashRow(st.df) # 0 THEN {}
    ELSE IF key THEN {"nb_configured"} ELSE {"nb_not_set"}

\* ------------------------------------------------------------ load_data
\* What the remote side does with one load: "auth" (credentials rejected, or
\* the cached client is None), "error" (open_by_url or get_all_records
\* raises), "ws" (WorksheetNotFound), "ok".
LoadOutcomes(c) ==
    IF c = "none" THEN {"auth"}
    ELSE IF c = "unset" THEN {"auth", "error", "ws", "ok"}
    ELSE {"error", "ws", "ok"}

\* connect_to_sheets under st.cache_resource: the first result, None
\* included, is kept for the life of the process.
connect_to_sheets(c, out) ==
    IF c = "unset" THEN (IF out = "auth" THEN "none" ELSE "ok") ELSE c

\* load_data(): (df, worksheet) and the errors it shows.
load_data(out, g) ==
    CASE out = "auth" ->
            [df |-> DataFrame(<<>>), worksheet |-> "None", shown |-> {"auth_failed"}]
      [] out = "ws" ->
            [df |-> DataFrame(<<>>), worksheet |-> "None", shown |-> {"sheet_not_found"}]
      [] out = "error" ->
            [df |-> DataFrame(<<>>), worksheet |-> "None", shown |-> {"load_failed"}]
      [] OTHER ->
            [df |-> DataFrame(get_all_records(g)), worksheet |-> "Dynamic Rates",
             shown |-> {}]

\* ------------------------------------------------------------- sessions
NoSession == [has_df |-> FALSE, df |-> <<>>, worksheet |-> "None"]

\* Lines 97-102: the session keeps the load only when the frame is not empty.
AfterRefreshUnguarded(st, ld) ==
    [has_df |-> TRUE, df |-> ld.df, worksheet |-> ld.worksheet]

AfterRefresh(st, ld) ==
    IF ~Empty(ld.df)
    THEN [has_df |-> TRUE, df |-> ld.df, worksheet |-> ld.worksheet]
    ELSE st

RefreshMsgs(ld) ==
    ld.shown \cup (IF ~Empty(ld.df) THEN {"data_loaded"} ELSE {"no_data_loaded"})

\* What every run leaves on the page of session s, given the session state
\* st it ends with.
Page(s, st, shown) ==
    /\ msgs' = shown \cup TailMsgs(st, nbKey)
    /\ uncaught' = Escaped(st)
    /\ inputs' = Offered(st)

\* The refresh button (lines 93-102) and the render that follows it.
Refresh(s, out) ==
    /\ out \in LoadOutcomes(client)
    /\ LET ld == load_data(out, sheet)
           st == AfterRefresh(ss[s], ld)
       IN /\ ss' = [ss EXCEPT ![s] = st]
          /\ Page(s, st, RefreshMsgs(ld))
    /\ client' = connect_to_sheets(client, out)
    /\ act' = [kind |-> "refresh", s |-> s, idx |-> 0, val |-> 0, outcome |-> out]
    /\ calls' = <<>>
    /\ UNCHANGED <<sheet, nbKey>>

\* Variants of the save handler: a wrong column, a row off by one, a handler
\* that also edits the frame in session state, and one that refuses to write
\* when the row no longer holds the room type it was loaded with.
SaveWrongColumn(s, idx, v, accepted) ==
    /\ v >= min_value
    /\ ButtonShown(ss[s], idx)
    /\ calls' = <<[row |-> idx + 2, col |-> 8, value |-> Num(v)]>>
    /\ sheet' = IF accepted THEN update_cell(sheet, idx + 2, 8, Num(v)) ELSE sheet
    /\ Page(s, ss[s], IF accepted THEN {"saved"} ELSE {"save_failed"})
    /\ act' = [kind |-> "save", s |-> s, idx |-> idx, val |-> v,
               outcome |-> IF accepted THEN "ok" ELSE "write"]
    /\ UNCHANGED <<client, nbKey, ss>>

SaveOffByOne(s, idx, v, accepted) ==
    /\ v >= min_value
    /\ ButtonShown(ss[s], idx)
    /\ calls' = <<[row |-> idx + 1, col |-> 9, value |-> Num(v)]>>
    /\ sheet' = IF accepted THEN update_cell(sheet, idx + 1, 9, Num(v)) ELSE sheet
    /\ Page(s, ss[s], IF accepted THEN {"saved"} ELSE {"save_failed"})
    /\ act' = [kind |-> "save", s |-> s, idx |-> idx, val |-> v,
               outcome |-> IF accepted THEN "ok" ELSE "write"]
    /\ UNCHANGED <<client, nbKey, ss>>

SaveEditsFrame(s, idx, v, accepted) ==
    /\ v >= min_value
    /\ ButtonShown(ss[s], idx)
    /\ calls' = <<[row |-> idx + 2, col |-> 9, value |-> Num(v)]>>
    /\ sheet' = IF accepted THEN update_cell(sheet, idx + 2, 9, Num(v)) ELSE sheet
    /\ LET st == [ss[s] EXCEPT !.df[idx + 1]["Manual_Override"] = Num(v)]
       IN /\ ss' = [ss EXCEPT ![s] = st]
          /\ Page(s, st, IF accepted THEN {"saved"} ELSE {"save_failed"})
    /\ act' = [kind |-> "save", s |-> s, idx |-> idx, val |-> v,
               outcome |-> IF accepted THEN "ok" ELSE "write"]
    /\ UNCHANGED <<client, nbKey>>

SaveChecked(s, idx, v, accepted) ==
    /\ v >= min_value
    /\ ButtonShown(ss[s], idx)
    /\ LET same == /\ idx + 2 <= Len(sheet)
                   /\ sheet[idx + 2][1] = ss[s].df[idx + 1]["Room_Type"]
       IN /\ calls' = IF same THEN <<[row |-> idx + 2, col |-> 9, value |-> Num(v)]>>
                      ELSE <<>>
          /\ sheet' = IF same /\ accepted THEN update_cell(sheet, idx + 2, 9, Num(v))
                      ELSE sheet
          /\ Page(s, ss[s], IF same /\ accepted THEN {"saved"} ELSE {"save_failed"})
    /\ act' = [kind |-> "save", s |-> s, idx |-> idx, val |-> v,
               outcome |-> IF accepted THEN "ok" ELSE "write"]
    /\ UNCHANGED <<client, nbKey, ss>>

\* The save button of the row with index idx (lines 138-143); new_override
\* is the value v held by that row's number_input.  The remote accepts the
\* write (accepted) or update_cell raises.
Save(s, idx, v, accepted) ==
    /\ v >= min_value
    /\ ButtonShown(ss[s], idx)
    /\ calls' = <<[row |-> idx + 2, col |-> 9, value |-> Num(v)]>>
    /\ sheet' = IF accepted THEN update_cell(sheet, idx + 2, 9, Num(v)) ELSE sheet
    /\ Page(s, ss[s], IF accepted THEN {"saved"} ELSE {"save_failed"})
    /\ act' = [kind |-> "save", s |-> s, idx |-> idx, val |-> v,
               outcome |-> IF accepted THEN "ok" ELSE "write"]
    /\ UNCHANGED <<client, nbKey, ss>>

\* The mark-as-pushed button of the row with index idx (lines 146-151).
MarkPushed(s, idx, accepted) ==
    /\ ButtonShown(ss[s], idx)
    /\ calls' = <<[row |-> idx + 2, col |-> 10, value |-> Str("Yes")]>>
    /\ sheet' = IF accepted THEN update_cell(sheet, idx + 2, 10, Str("Yes")) ELSE sheet
    /\ Page(s, ss[s], IF accepted THEN {"marked_pushed"} ELSE {"update_failed"})
    /\ act' = [kind |-> "push", s |-> s, idx |-> idx, val |-> 0,
               outcome |-> IF accepted THEN "ok" ELSE "write"]
    /\ UNCHANGED <<client, nbKey, ss>>

\* ------------------------------------------------------- specification
\* One operator at one browser session; nobody else edits the sheet.
\* What the operator may try to put into a number_input.
TypedValues == {0 - 1, 0, 75}
Indexes == 0..(MaxRows - 1)

InitOverrides == {Blank, Str("n/a"), Num(75)}

InitSheets ==
    {<<Header>> \o [i \in 1..n |->
            (1 :> Str(RoomTypes[i])) @@ (8 :> FinalOf(i)) @@
            (ColManualOverride :> o[i]) @@ (ColPushToNB :> Blank)] :
        n \in 0..MaxRows, o \in [1..MaxRows -> InitOverrides]}

FirstRun ==
    /\ client = "unset"
    /\ ss = [s \in Sessions |-> NoSession]
    /\ act = [kind |-> "start", s |-> 0, idx |-> 0, val |-> 0, outcome |-> "ok"]
    /\ calls = <<>>
    /\ msgs = {"click_refresh"}
    /\ uncaught = "none"
    /\ inputs = <<>>
    /\ ops = 0

Init ==
    /\ sheet \in InitSheets
    /\ nbKey \in BOOLEAN
    /\ FirstRun

Next ==
    /\ UNCHANGED ops
    /\ \/ \E out \in {"auth", "error", "ws", "ok"} : Refresh(1, out)
       \/ \E idx \in Indexes, v \in TypedValues, a \in BOOLEAN : Save(1, idx, v, a)
       \/ \E idx \in Indexes, a \in BOOLEAN : MarkPushed(1, idx, a)

Spec == Init /\ [][Next]_vars

\* ----------------------------------------- several writers, one sheet
\* Somebody edits the sheet outside the application: two adjacent data rows
\* change places, a data row is deleted, or a row for another room type is
\* inserted above the data.
Swapped(g, r) ==
    [x \in 1..Len(g) |-> IF x = r THEN g[r + 1] ELSE IF x = r + 1 THEN g[r] ELSE g[x]]

Deleted(g, r) == [x \in 1..(Len(g) - 1) |-> IF x < r THEN g[x] ELSE g[x + 1]]

UsedTypes(g) == {g[r][1].s : r \in 2..Len(g)}

NewRow(i) ==
    (1 :> Str(RoomTypes[i])) @@ (8 :> FinalOf(i)) @@
    (ColManualOverride :> Blank) @@ (ColPushToNB :> Blank)

Inserted(g, i) == <<g[1], NewRow(i)>> \o SubSeq(g, 2, Len(g))

Outside(g) ==
    /\ sheet' = g
    /\ act' = [kind |-> "outside", s |-> 0, idx |-> 0, val |-> 0, outcome |-> "ok"]
    /\ calls' = <<>>
    /\ UNCHANGED <<client, nbKey, ss, msgs, uncaught, inputs>>

ExtSwapRows(r) == r >= 2 /\ r + 1 <= Len(sheet) /\ Outside(Swapped(sheet, r))

ExtDeleteRow(r) == r >= 2 /\ r <= Len(sheet) /\ Outside(Deleted(sheet, r))

ExtInsertRow(i) ==
    /\ Len(sheet) - 1 < MaxRows
    /\ RoomTypes[i] \notin UsedTypes(sheet)
    /\ Outside(Inserted(sheet, i))

InitConc ==
    /\ sheet = <<Header>> \o [i \in 1..MaxRows |->
            (1 :> Str(RoomTypes[i])) @@ (8 :> FinalOf(i)) @@
            (ColManualOverride :> Num(75)) @@ (ColPushToNB :> Blank)]
    /\ nbKey = FALSE
    /\ FirstRun

NextConc ==
    /\ ops < MaxOps
    /\ ops' = ops + 1
    /\ \/ \E s \in Sessions, out \in {"auth", "error", "ws", "ok"} : Refresh(s, out)
       \/ \E s \in Sessions, idx \in Indexes, v \in TypedValues, a \in BOOLEAN :
             Save(s, idx, v, a)
       \/ \E s \in Sessions, idx \in Indexes, a \in BOOLEAN : MarkPushed(s, idx, a)
       \/ \E r \in 2..(MaxRows + 1) : ExtSwapRows(r)
       \/ \E r \in 2..(MaxRows + 1) : ExtDeleteRow(r)
       \/ \E i \in 1..Len(RoomTypes) : ExtInsertRow(i)

SpecConc == InitConc /\ [][NextConc]_vars

\* ============================================================ properties
LastSession == ss[act.s]

\* C1: a save of value v for the record at 0-based position i issues exactly
\* one update_cell, addressed to row i+2 and column 9 and carrying v; when the
\* remote accepts it, that cell of the sheet holds v and the row is the one
\* the record was read from.
C1_SaveAddressesRow ==
    act.kind = "save" =>
        /\ calls = <<[row |-> act.idx + 2, col |-> 9, value |-> Num(act.val)]>>
        /\ act.outcome = "ok" =>
            /\ sheet[act.idx + 2][9] = Num(act.val)
            /\ get_all_records(sheet)[act.idx + 1]["Room_Type"]
                  = LastSession.df[act.idx + 1]["Room_Type"]

C1_Witness ==
    /\ act.kind = "save" /\ act.outcome = "ok" /\ act.idx = 1
    /\ calls = <<[row |-> 3, col |-> 9, value |-> Num(75)]>>
    /\ sheet[3][9] = Num(75)

\* C2: a refresh that fails (authentication, document or worksheet not found,
\* read error) leaves the session state exactly as it was, Empty or Loaded,
\* and shows the error of its cause together with the "no data" error.
LoadError(out) ==
    CASE out = "auth" -> "auth_failed"
      [] out = "ws" -> "sheet_not_found"
      [] OTHER -> "load_failed"

C2_FailedRefreshKeepsState ==
    [][(act'.kind = "refresh" /\ act'.outcome # "ok") =>
          /\ ss' = ss
          /\ {LoadError(act'.outcome), "no_data_loaded"} \subseteq msgs'
          /\ "data_loaded" \notin msgs']_vars

C2_Witness ==
    /\ act.kind = "refresh" /\ act.outcome = "ws"
    /\ LastSession.has_df
    /\ "sheet_not_found" \in msgs

\* A record whose Manual_Override is text that is neither blank nor a number.
HasTextOverride(df) ==
    \E k \in 1..Len(df) :
        df[k]["Manual_Override"].k = "str" /\ df[k]["Manual_Override"] # Blank

\* C3 (as claimed): for every record of a loaded snapshot the override input
\* offers Manual_Override when it is numeric and Final_Recommended when it is
\* absent or blank, the '' of an unpopulated cell included.  (Stated for the
\* snapshots in which every override is a number, absent or blank.)
C3_EffectivePrice ==
    (act.s \in Sessions /\ LastSession.has_df
        /\ ~HasTextOverride(LastSession.df)) =>
        \A k \in 1..Len(LastSession.df) :
            LET mo == LastSession.df[k]["Manual_Override"]
                fr == LastSession.df[k]["Final_Recommended"]
            IN /\ mo.k = "num" => (k <= Len(inputs) /\ inputs[k] = mo.n)
               /\ (mo = Blank \/ mo = NaN) => (k <= Len(inputs) /\ inputs[k] = fr.n)

\* C4 (as claimed): without a channel-manager credential no push can be
\* invoked and no push-related write is attempted.
C4_NoPushWithoutCredential ==
    ~nbKey =>
        /\ act.kind # "push"
        /\ \A i \in 1..Len(calls) : calls[i].col # 10

\* C5: a save or a mark-as-pushed, accepted or not, leaves every session's
\* snapshot, worksheet handle and Loaded state unchanged; only a refresh whose
\* load succeeds changes them.
C5_SnapshotReadOnly ==
    [][/\ act'.kind \in {"save", "push"} => ss' = ss
       /\ ss' # ss => (act'.kind = "refresh" /\ act'.outcome = "ok")]_vars

C5_Witness ==
    /\ act.kind = "save" /\ act.outcome = "write"
    /\ LastSession.has_df
    /\ "save_failed" \in msgs

\* C6: with no other writer, an accepted save of v for a record changes what
\* the sheet reads back as in that record's Manual_Override only, to v; and
\* the refresh that follows it loads exactly that.
C6_RoundTrip ==
    [][/\ (act'.kind = "save" /\ act'.outcome = "ok") =>
            get_all_records(sheet') =
                [get_all_records(sheet) EXCEPT
                    ![act'.idx + 1]["Manual_Override"] = Num(act'.val)]
       /\ (act.kind = "save" /\ act.outcome = "ok"
            /\ act'.kind = "refresh" /\ act'.outcome = "ok") =>
            /\ ss'[act'.s].has_df
            /\ ss'[act'.s].df = get_all_records(sheet)
            /\ ss'[act'.s].df[act.idx + 1]["Manual_Override"] = Num(act.val)]_vars

C6_Witness ==
    /\ act.kind = "refresh" /\ act.outcome = "ok"
    /\ Len(LastSession.df) = 2
    /\ LastSession.df[2]["Manual_Override"] = Num(0)
    /\ LastSession.df[1]["Manual_Override"] = Num(75)

\* C7 (as claimed): after any error of a session (a failed load, a rejected
\* write, a loaded record whose Manual_Override is non-numeric text) nothing
\* has escaped uncaught.
C7_NothingEscapes ==
    (act.s \in Sessions
        /\ (act.outcome # "ok" \/ HasTextOverride(LastSession.df))) =>
        uncaught = "none"

\* C8 (as claimed): every refresh whose load succeeds leaves the session
\* Loaded with exactly the rows read and the handle of that read, whatever
\* the rows are.
C8_RefreshLoads ==
    (act.kind = "refresh" /\ act.outcome = "ok") =>
        LastSession = [has_df |-> TRUE, df |-> get_all_records(sheet),
                       worksheet |-> "Dynamic Rates"]

\* C9: a save is addressed by position with no conflict detection: whatever
\* other sessions or outside edits did to the sheet since the load, an
\* accepted save puts its value in row i+2, column 9 of the sheet as it is
\* now and reports success, so the cell holds the value of the last write.
C9_PositionalSave ==
    (act.kind = "save" /\ act.outcome = "ok") =>
        /\ calls = <<[row |-> act.idx + 2, col |-> 9, value |-> Num(act.val)]>>
        /\ sheet[act.idx + 2][9] = Num(act.val)
        /\ "saved" \in msgs

C9_Witness ==
    /\ act.kind = "save" /\ act.outcome = "ok"
    /\ sheet[act.idx + 2][1] # LastSession.df[act.idx + 1]["Room_Type"]
    /\ sheet[act.idx + 2][1] # Blank

\* C10: every run writes at most one cell, a refresh none; a write goes to a
\* row in 2..n+1 (n records in the session's snapshot) and to column 9 with a
\* number >= 0 or to column 10 with "Yes"; no other cell of the sheet, and
\* never the header row, changes.
CallsOk ==
    /\ Len(calls) <= 1
    /\ act.kind = "refresh" => calls = <<>>
    /\ \A i \in 1..Len(calls) :
        /\ calls[i].row \in 2..(Len(LastSession.df) + 1)
        /\ \/ calls[i].col = 9 /\ calls[i].value.k = "num" /\ calls[i].value.n >= 0
           \/ calls[i].col = 10 /\ calls[i].value = Str("Yes")

C10_WriteFootprint ==
    [][/\ CallsOk'
       /\ Len(sheet') = Len(sheet)
       /\ sheet'[1] = sheet[1]
       /\ \A r \in 1..Len(sheet), c \in Cols :
            sheet'[r][c] # sheet[r][c] =>
                (calls' # <<>> /\ calls'[1].row = r /\ calls'[1].col = c)]_vars

C10_Witness ==
    /\ calls = <<[row |-> 3, col |-> 10, value |-> Str("Yes")]>>
    /\ sheet[3][10] = Str("Yes")
    /\ sheet[2][10] = Blank

====
